---- MODULE Spec2Model ----
(***************************************************************************)
(* Flight delay prediction service (src/server/app.py).                    *)
(*                                                                         *)
(* The state is the Flask application's configuration (the classifier and  *)
(* the airport table stored by create_app) together with the last request  *)
(* served, its response and the predict_proba calls made while serving it. *)
(* One action per route handler: health, airports, prediction.             *)
(*                                                                         *)
(* JSON values are records [t, n, s]: t is the JSON/Python type, n the     *)
(* numeric payload, s the characters of a string.  Floats are held in      *)
(* tenths (n = 37 is 3.7); text is a sequence of characters.  Airport      *)
(* names are sequences of code points so that Python's string ordering     *)
(* can be computed.  Probabilities are numerators over Den.                *)
(***************************************************************************)
EXTENDS Integers, Sequences, FiniteSets, TLC

VARIABLES DELAY_MODEL, AIRPORTS_DF, request, response, calls, seen

vars == <<DELAY_MODEL, AIRPORTS_DF, request, response, calls, seen>>

(***************************************************************************)
(* Bounds of the model.                                                    *)
(***************************************************************************)
\* probabilities are k / Den for k in 0..Den, Den = 2 * HalfDen (so 0.5 exists)
HalfDen == 2
\* the airport table holds at most MaxAirports rows
MaxAirports == 3
\* integers sent as day_of_week range over -DowSlack .. 7 + DowSlack
DowSlack == 1

Den == 2 * HalfDen

(***************************************************************************)
(* JSON values as Python sees them after request.get_json.                 *)
(***************************************************************************)
Absent == [t |-> "absent", n |-> 0, s |-> <<>>]
Null == [t |-> "null", n |-> 0, s |-> <<>>]
JInt(i) == [t |-> "int", n |-> i, s |-> <<>>]
JBool(b) == [t |-> "bool", n |-> IF b THEN 1 ELSE 0, s |-> <<>>]
JFloat(tenths) == [t |-> "float", n |-> tenths, s |-> <<>>]
JInf == [t |-> "inf", n |-> 0, s |-> <<>>]
JNaN == [t |-> "nan", n |-> 0, s |-> <<>>]
JStr(chars) == [t |-> "str", n |-> 0, s |-> chars]
JList == [t |-> "list", n |-> 0, s |-> <<>>]

(***************************************************************************)
(* Python's int(): the built-in the handler coerces every field with.      *)
(***************************************************************************)
DigitChars == <<"0", "1", "2", "3", "4", "5", "6", "7", "8", "9">>

IsDigit(c) == \E i \in 1..10 : DigitChars[i] = c

DigitValue(c) == (CHOOSE i \in 1..10 : DigitChars[i] = c) - 1

RECURSIVE lstrip(_)
lstrip(s) == IF s # <<>> /\ Head(s) = " " THEN lstrip(Tail(s)) ELSE s

RECURSIVE rstrip(_)
rstrip(s) ==
  IF s # <<>> /\ s[Len(s)] = " " THEN rstrip(SubSeq(s, 1, Len(s) - 1)) ELSE s

strip(s) == rstrip(lstrip(s))

\* a decimal literal body: digits, single underscores only between digits
IsDigits(s) ==
  /\ s # <<>>
  /\ IsDigit(s[1])
  /\ IsDigit(s[Len(s)])
  /\ \A i \in 1..Len(s) : IsDigit(s[i]) \/ s[i] = "_"
  /\ \A i \in 1..(Len(s) - 1) : ~(s[i] = "_" /\ s[i + 1] = "_")

RECURSIVE DigitsValue(_, _)
DigitsValue(s, acc) ==
  IF s = <<>> THEN acc
  ELSE IF Head(s) = "_" THEN DigitsValue(Tail(s), acc)
  ELSE DigitsValue(Tail(s), 10 * acc + DigitValue(Head(s)))

Ok(v) == [exc |-> "", val |-> v]

Raises(e) == [exc |-> e, val |-> 0]

int_of_str(chars) ==
  LET s == strip(chars)
      signed == s # <<>> /\ Head(s) \in {"+", "-"}
      body == IF signed THEN Tail(s) ELSE s
  IN IF ~IsDigits(body) THEN Raises("ValueError")
     ELSE IF signed /\ Head(s) = "-" THEN Ok(0 - DigitsValue(body, 0))
     ELSE Ok(DigitsValue(body, 0))

\* float -> int truncates toward zero
trunc(tenths) == IF tenths >= 0 THEN tenths \div 10 ELSE 0 - ((0 - tenths) \div 10)

int(v) ==
  CASE v.t = "int" -> Ok(v.n)
    [] v.t = "bool" -> Ok(v.n)
    [] v.t = "float" -> Ok(trunc(v.n))
    [] v.t = "inf" -> Raises("OverflowError")
    [] v.t = "nan" -> Raises("ValueError")
    [] v.t = "str" -> int_of_str(v.s)
    [] OTHER -> Raises("TypeError")

(***************************************************************************)
(* Requests and responses.                                                 *)
(***************************************************************************)
\* body.kind: "none"      no body, or a body get_json(silent=True) cannot parse
\*            "falsy"     JSON that is falsy in Python and is not an object with
\*                        keys: {}, [], "", 0, false, null
\*            "nonobject" truthy JSON that is not an object: [1], "x", 5, true
\*            "object"    a JSON object; a key it lacks is Absent
Body(kind, a, d, c, o) ==
  [kind |-> kind, airport_id |-> a, day_of_week |-> d, carrier |-> c,
   origin_airport_id |-> o]

NoBody == Body("none", Absent, Absent, Absent, Absent)

NoRequest == [endpoint |-> "none", body |-> NoBody]

Response(status, exc, errors, prediction_result, listing, health_status) ==
  [status |-> status, exc |-> exc, errors |-> errors,
   prediction |-> prediction_result, listing |-> listing,
   health |-> health_status]

NoResponse == Response(0, "", {}, <<>>, <<>>, "")

\* an exception the handler does not catch: Flask answers 500
InternalServerError(exc) == Response(500, exc, {}, <<>>, <<>>, "")

(***************************************************************************)
(* POST /prediction                                                        *)
(***************************************************************************)
DOW_NAME_MAP ==
  <<"Monday", "Tuesday", "Wednesday", "Thursday", "Friday", "Saturday", "Sunday">>

UNKNOWN == JStr(<<"U", "N", "K", "N", "O", "W", "N">>)

\* payload.get(key) / payload.get(key, default)
get(value, default) == IF value = Absent THEN default ELSE value

\* try: x = int(raw) / except (TypeError, ValueError): x = None
\* <<>> is None, <<v>> the integer v; any other exception propagates
Caught(r) == r.exc \in {"TypeError", "ValueError"}

Propagates(r) == r.exc # "" /\ ~Caught(r)

OrNone(r) == IF r.exc = "" THEN <<r.val>> ELSE <<>>

AirportIdErrors(airport_id) ==
  IF airport_id = <<>> THEN {<<"airport_id", "airport_id is required">>} ELSE {}

DayOfWeekErrors(day_of_week) ==
  IF day_of_week = <<>> THEN {<<"day_of_week", "day_of_week is required">>}
  ELSE IF day_of_week[1] \notin DOMAIN DOW_NAME_MAP
    THEN {<<"day_of_week", "day_of_week must be an integer between 1 and 7">>}
  ELSE {}

\* model.predict_proba(features): one probability row per feature row
predict_proba(model, features) == [i \in 1..Len(features) |-> model.proba]

\* list(getattr(model, "classes_", [0, 1]))
classes_of(model) == IF model.has_classes_ THEN model.classes_ ELSE <<0, 1>>

\* classes.index(1), 0-based; -1 stands for ValueError
index(classes, label) ==
  IF \E i \in 1..Len(classes) : classes[i] = label
  THEN (CHOOSE i \in 1..Len(classes) :
          /\ classes[i] = label
          /\ \A j \in 1..(i - 1) : classes[j] # label) - 1
  ELSE -1

delayed_index(classes, proba) ==
  IF index(classes, 1) >= 0 THEN index(classes, 1)
  ELSE IF Len(proba) > 1 THEN 1 ELSE 0

max(a, b) == IF a >= b THEN a ELSE b

\* the label with the tie at 0.5 broken the other way
prediction_label_strict(delay_probability) ==
  IF 2 * delay_probability > Den THEN "delayed" ELSE "on_time"

\* "delayed" if delay_probability >= 0.5 else "on_time"
prediction_label(delay_probability) ==
  IF 2 * delay_probability >= Den THEN "delayed" ELSE "on_time"

\* confidence = max(delay_probability, 1 - delay_probability)
confidence_of(delay_probability) == max(delay_probability, Den - delay_probability)

\* lines 240-279: the inference half of the handler, entered with no errors
Infer(model, airport_id, day_of_week, carrier, origin_airport_id) ==
  LET features == << [Carrier |-> carrier,
                      OriginAirportID |-> origin_airport_id,
                      DestAirportID |-> airport_id,
                      DayOfWeekName |-> DOW_NAME_MAP[day_of_week]] >>
      proba == predict_proba(model, features)[1]
      classes == classes_of(model)
      idx == delayed_index(classes, proba)
      delay_probability == proba[idx + 1]
      confidence == confidence_of(delay_probability)
      result == [input |-> [airport_id |-> airport_id,
                            day_of_week |-> day_of_week,
                            carrier |-> carrier,
                            origin_airport_id |-> origin_airport_id],
                 prediction |-> prediction_label(delay_probability),
                 delay_probability |-> delay_probability,
                 delay_probability_percent |-> delay_probability * 100,
                 model_confidence_percent |-> confidence * 100]
  IN IF idx + 1 > Len(proba)
     THEN [response |-> InternalServerError("IndexError"), calls |-> <<features>>]
     ELSE [response |-> Response(200, "", {}, <<result>>, <<>>, ""),
           calls |-> <<features>>]

\* lines 210-238, then Infer: what the handler answers and which
\* predict_proba calls it makes
Handle(model, body) ==
  LET payload == IF body.kind = "object" THEN body ELSE NoBody
      airport_id_raw == get(payload.airport_id, Null)
      day_of_week_raw == get(payload.day_of_week, Null)
      carrier == get(payload.carrier, UNKNOWN)
      origin_airport_id_raw == get(payload.origin_airport_id, JInt(0))
      a == int(airport_id_raw)
      d == int(day_of_week_raw)
      o == int(origin_airport_id_raw)
      airport_id == OrNone(a)
      day_of_week == OrNone(d)
      origin_airport_id == IF o.exc = "" THEN o.val ELSE 0
      errors == AirportIdErrors(airport_id) \cup DayOfWeekErrors(day_of_week)
      raise(exc) == [response |-> InternalServerError(exc), calls |-> <<>>]
  IN IF body.kind = "nonobject" THEN raise("AttributeError")
     ELSE IF Propagates(a) THEN raise(a.exc)
     ELSE IF Propagates(d) THEN raise(d.exc)
     ELSE IF Propagates(o) THEN raise(o.exc)
     ELSE IF errors # {}
       THEN [response |-> Response(400, "", errors, <<>>, <<>>, ""),
             calls |-> <<>>]
     ELSE Infer(model, airport_id[1], day_of_week[1], carrier, origin_airport_id)

(***************************************************************************)
(* GET /airports and GET /health                                           *)
(***************************************************************************)
\* Python's str < str: lexicographic on code points
RECURSIVE str_lt(_, _)
str_lt(a, b) ==
  IF b = <<>> THEN FALSE
  ELSE IF a = <<>> THEN TRUE
  ELSE IF a[1] < b[1] THEN TRUE
  ELSE IF a[1] > b[1] THEN FALSE
  ELSE str_lt(Tail(a), Tail(b))

\* row goes after every row whose name is not greater (ties keep table order)
RECURSIVE insert_row(_, _)
insert_row(sorted, row) ==
  IF sorted = <<>> THEN <<row>>
  ELSE IF str_lt(row.airport_name, Head(sorted).airport_name)
    THEN <<row>> \o sorted
  ELSE <<Head(sorted)>> \o insert_row(Tail(sorted), row)

RECURSIVE sort_rows(_, _)
sort_rows(df, acc) ==
  IF df = <<>> THEN acc ELSE sort_rows(Tail(df), insert_row(acc, Head(df)))

\* the table listed in stored order, the sort left out
sort_values_skipped(df) == df

\* df.sort_values("airport_name"): a new, sorted frame; df is left as it was
sort_values(df) == sort_rows(df, <<>>)

\* the list comprehension over sorted_df.itertuples
records_of(sorted_df) ==
  [i \in 1..Len(sorted_df) |->
     [airport_id |-> int(JInt(sorted_df[i].airport_id)).val,
      airport_name |-> sorted_df[i].airport_name]]

\* `seen` is a history variable, not program state: an observer's note of one
\* earlier exchange (<<>> when none is noted) and of whether a different
\* request has been served since.  No handler reads it.
Note(s, r) ==
  IF s = <<>> THEN s ELSE <<[s[1] EXCEPT !.other = @ \/ r # s[1].request]>>

health ==
  /\ request' = [endpoint |-> "health", body |-> NoBody]
  /\ response' = Response(200, "", {}, <<>>, <<>>, "ok")
  /\ calls' = <<>>
  /\ seen' = Note(seen, request')
  /\ UNCHANGED <<DELAY_MODEL, AIRPORTS_DF>>

\* the listing with the stored table sorted in place
airports_in_place ==
  /\ request' = [endpoint |-> "airports", body |-> NoBody]
  /\ response' = Response(200, "", {}, <<>>,
                          <<[airports |-> records_of(sort_rows(AIRPORTS_DF, <<>>)),
                             count |-> Len(AIRPORTS_DF)]>>, "")
  /\ calls' = <<>>
  /\ seen' = Note(seen, request')
  /\ AIRPORTS_DF' = sort_rows(AIRPORTS_DF, <<>>)
  /\ UNCHANGED DELAY_MODEL

airports ==
  LET df == AIRPORTS_DF
      sorted_df == sort_values(df)
      records == records_of(sorted_df)
  IN /\ request' = [endpoint |-> "airports", body |-> NoBody]
     /\ response' = Response(200, "", {}, <<>>,
                             <<[airports |-> records, count |-> Len(records)]>>, "")
     /\ calls' = <<>>
     /\ seen' = Note(seen, request')
     /\ UNCHANGED <<DELAY_MODEL, AIRPORTS_DF>>

prediction(body) ==
  LET model == DELAY_MODEL
      out == Handle(model, body)
  IN /\ request' = [endpoint |-> "prediction", body |-> body]
     /\ response' = out.response
     /\ calls' = out.calls
     /\ seen' = Note(seen, request')
     /\ UNCHANGED <<DELAY_MODEL, AIRPORTS_DF>>

\* the observer notes the exchange just completed
Remember ==
  /\ request.endpoint # "none"
  /\ seen' = <<[request |-> request, response |-> response, other |-> FALSE]>>
  /\ UNCHANGED <<DELAY_MODEL, AIRPORTS_DF, request, response, calls>>

(***************************************************************************)
(* Inputs: classifiers, airport tables, request bodies.                    *)
(***************************************************************************)
Classifier(has_classes_, classes_, proba) ==
  [has_classes_ |-> has_classes_, classes_ |-> classes_, proba |-> proba]

\* probability rows: a lone entry of any value, or entries that sum to 1
ProbaRows(n) ==
  IF n = 1 THEN {<<k>> : k \in 0..Den}
  ELSE IF n = 2 THEN {<<Den - k, k>> : k \in 0..Den}
  ELSE {<<0, Den - k, k>> : k \in 0..Den}

ClassLists == {<<0, 1>>, <<1, 0>>, <<0, 2>>, <<0>>, <<1>>, <<0, 2, 1>>}

Classifiers ==
  UNION {{Classifier(TRUE, c, p) : p \in ProbaRows(Len(c))} : c \in ClassLists}
    \cup {Classifier(FALSE, <<>>, p) : p \in ProbaRows(1) \cup ProbaRows(2)}

\* the classifier of the worked example: classes_ = [0, 1], one fixed row
ExampleClassifier == Classifier(TRUE, <<0, 1>>, <<Den - 1, 1>>)

\* airport names as code points: "B", "A", "a", "AB"
Names == {<<66>>, <<65>>, <<97>>, <<65, 66>>}

Rows == [airport_id : {10, 20}, airport_name : Names]

Directories == UNION {[1..n -> Rows] : n \in 0..MaxAirports}

\* three airports, not in name order
ExampleDirectory ==
  <<[airport_id |-> 10, airport_name |-> <<66>>],
    [airport_id |-> 20, airport_name |-> <<97>>],
    [airport_id |-> 10, airport_name |-> <<65, 66>>]>>

AirportIdValues ==
  {Absent, Null, JInt(3), JFloat(37), JFloat(30), JBool(TRUE), JStr(<<"3">>),
   JStr(<<"a", "b">>), JStr(<<"3", ".", "0">>), JInf, JList}

DayOfWeekValues ==
  {JInt(d) : d \in (0 - DowSlack)..(7 + DowSlack)}
    \cup {Absent, Null, JFloat(25), JBool(TRUE), JStr(<<" ", "7", " ">>),
          JStr(<<"a", "b", "c">>), JStr(<<"-", "1">>), JNaN, JInf, JList}

CarrierValues == {Absent, Null, JStr(<<"D", "L">>)}

OriginValues == {Absent, Null, JInt(5), JStr(<<"8">>), JStr(<<"a">>), JInf}

\* every airport_id against every day_of_week
ValidationBodies ==
  {Body("object", a, d, Absent, Absent) : a \in AirportIdValues, d \in DayOfWeekValues}

\* every carrier and origin against valid and invalid required fields
OptionalBodies ==
  {Body("object", a, d, c, o) :
     a \in {JInt(3), Absent}, d \in {JInt(1), JInt(0)},
     c \in CarrierValues, o \in OriginValues}

OtherBodies ==
  {Body(k, Absent, Absent, Absent, Absent) : k \in {"none", "falsy", "nonobject"}}

Bodies == ValidationBodies \cup OptionalBodies \cup OtherBodies

FewBodies ==
  {Body("object", a, d, c, o) :
     a \in {JInt(3), JStr(<<"a", "b">>), JInf}, d \in {JInt(1), JInt(7), JInt(8), Absent},
     c \in {Absent, JStr(<<"D", "L">>)}, o \in {Absent, JInt(5)}}
    \cup OtherBodies

(***************************************************************************)
(* Specifications.                                                         *)
(***************************************************************************)
\* create_app has run: both artifacts are loaded, nothing has been served
InitWith(models, directories) ==
  /\ DELAY_MODEL \in models
  /\ AIRPORTS_DF \in directories
  /\ request = NoRequest
  /\ response = NoResponse
  /\ calls = <<>>
  /\ seen = <<>>

\* every classifier, every request body
Init == InitWith(Classifiers, {ExampleDirectory})

Next == (\E body \in Bodies : prediction(body)) \/ airports \/ health

Spec == Init /\ [][Next]_vars

\* every airport table
InitAirports == InitWith({ExampleClassifier}, Directories)

NextAirports == (\E body \in OtherBodies : prediction(body)) \/ airports \/ health

SpecAirports == InitAirports /\ [][NextAirports]_vars

\* sequences of requests, with an observer that remembers one exchange
InitHist ==
  InitWith({ExampleClassifier, Classifier(FALSE, <<>>, <<Den>>),
            Classifier(TRUE, <<1, 0>>, <<HalfDen, HalfDen>>)},
           {ExampleDirectory, <<>>})

NextHist ==
  (\E body \in FewBodies : prediction(body)) \/ airports \/ health \/ Remember

SpecHist == InitHist /\ [][NextHist]_vars

(***************************************************************************)
(* Vocabulary of the properties.                                           *)
(***************************************************************************)
IsPrediction == request.endpoint = "prediction"

ErrorKeys == {e[1] : e \in response.errors}

MessagesFor(field) == {e[2] : e \in {x \in response.errors : x[1] = field}}

\* the rows handed to predict_proba while serving the request
SubmittedRows == UNION {{calls[i][j] : j \in 1..Len(calls[i])} : i \in 1..Len(calls)}

\* a required field as the handler reads it: a missing key reads as null
Coercion(raw) == int(get(raw, Null))

WeekdayName(d) ==
  CASE d = 1 -> "Monday" [] d = 2 -> "Tuesday" [] d = 3 -> "Wednesday"
    [] d = 4 -> "Thursday" [] d = 5 -> "Friday" [] d = 6 -> "Saturday"
    [] d = 7 -> "Sunday" [] OTHER -> "?"

\* the fields of the request that fail validation
FailedFields ==
  LET a == Coercion(request.body.airport_id)
      d == Coercion(request.body.day_of_week)
  IN (IF a.exc = "" THEN {} ELSE {"airport_id"})
       \cup (IF d.exc = "" /\ d.val \in 1..7 THEN {} ELSE {"day_of_week"})

\* origin_airport_id as documented: its integer value, or 0
ExpectedOrigin ==
  LET o == int(get(request.body.origin_airport_id, JInt(0)))
  IN IF o.exc = "" THEN o.val ELSE 0

\* the probability of the delayed class as documented: at the position of
\* label 1 of the classifier's own class list, else second entry, else only entry
DocumentedDelayed(model) ==
  LET p == model.proba
      c == model.classes_
  IN IF model.has_classes_ /\ \E i \in 1..Len(c) : c[i] = 1
     THEN p[CHOOSE i \in 1..Len(c) : c[i] = 1 /\ \A j \in 1..(i - 1) : c[j] # 1]
     ELSE IF Len(p) > 1 THEN p[2] ELSE p[1]

Occurrences(seq, x) == Cardinality({i \in 1..Len(seq) : seq[i] = x})

(***************************************************************************)
(* Properties.                                                             *)
(***************************************************************************)
\* C1: every raw day_of_week ends in exactly one of three outcomes: it coerces
\* to d in 1..7, no day_of_week error, DayOfWeekName is the weekday of d; it
\* coerces outside 1..7, 400 with "must be an integer between 1 and 7" and no
\* feature row; it does not coerce, 400 with "is required" and no feature row.
C1_DayOfWeekOutcomes ==
  IsPrediction =>
    LET d == Coercion(request.body.day_of_week)
    IN IF d.exc = "" /\ d.val \in 1..7
       THEN /\ "day_of_week" \notin ErrorKeys
            /\ \A row \in SubmittedRows : row.DayOfWeekName = WeekdayName(d.val)
       ELSE IF d.exc = ""
       THEN /\ response.status = 400
            /\ MessagesFor("day_of_week")
                 = {"day_of_week must be an integer between 1 and 7"}
            /\ calls = <<>>
       ELSE /\ response.status = 400
            /\ MessagesFor("day_of_week") = {"day_of_week is required"}
            /\ calls = <<>>

\* C2: airport_id is accepted only when it is an integer or an integer-valued
\* string or number; any other value (a fraction, a boolean, ...) gives 400
\* with "airport_id is required".  Requests that end in an exception the
\* handler does not catch are left to C6.
C2_AirportIdIntegerOnly ==
  (IsPrediction /\ request.body.kind = "object" /\ response.status # 500) =>
    LET raw == request.body.airport_id
        integer_valued ==
          \/ raw.t = "int"
          \/ raw.t = "float" /\ raw.n % 10 = 0
          \/ raw.t = "str" /\ int_of_str(raw.s).exc = ""
    IN ~integer_valued =>
         /\ response.status = 400
         /\ <<"airport_id", "airport_id is required">> \in response.errors

\* C3: the keys of the returned errors are exactly the fields among airport_id
\* and day_of_week that failed validation, and the response is 400 if and only
\* if some field failed.
C3_ErrorsExactlyFailedFields ==
  IsPrediction =>
    /\ response.status = 400 <=> FailedFields # {}
    /\ response.status = 400 => ErrorKeys = FailedFields
    /\ response.status # 400 => response.errors = {}

\* C4: origin_airport_id never causes a rejection: a request whose required
\* fields are valid reaches the classifier with OriginAirportID the coerced
\* integer, or 0 when the value is omitted, null or not integer-coercible; the
\* 200 response echoes the same integer; errors never names the field.
C4_OriginNeverRejects ==
  IsPrediction =>
    /\ "origin_airport_id" \notin ErrorKeys
    /\ FailedFields = {} =>
         /\ calls # <<>>
         /\ \A row \in SubmittedRows : row.OriginAirportID = ExpectedOrigin
    /\ response.status = 200 =>
         response.prediction[1].input.origin_airport_id = ExpectedOrigin

\* C5: with p the classifier's probability of the delayed class, the 200
\* response has delay_probability = p, delay_probability_percent = 100 p,
\* model_confidence_percent = 100 max(p, 1 - p), which lies in [50, 100], and
\* prediction "delayed" exactly when p >= 0.5, "on_time" otherwise.
C5_ResultFromProbability ==
  (IsPrediction /\ response.status = 200) =>
    LET p == DocumentedDelayed(DELAY_MODEL)
        r == response.prediction[1]
    IN /\ r.delay_probability = p
       /\ r.delay_probability_percent = 100 * p
       /\ r.model_confidence_percent = 100 * (IF p >= Den - p THEN p ELSE Den - p)
       /\ r.model_confidence_percent >= 50 * Den
       /\ r.model_confidence_percent <= 100 * Den
       /\ r.prediction = "delayed" <=> 2 * p >= Den
       /\ r.prediction \in {"delayed", "on_time"}

\* C5 witness: a tie at exactly 0.5 answered "delayed".
C5_TieIsDelayed ==
  /\ IsPrediction
  /\ response.status = 200
  /\ DocumentedDelayed(DELAY_MODEL) = HalfDen
  /\ response.prediction[1].prediction = "delayed"
  /\ response.prediction[1].model_confidence_percent = 50 * Den

\* C6: every POST /prediction, whatever its body, ends in a 200 result or a
\* structured 400; validation never raises.  (A failure after the classifier
\* has been invoked is an inference failure, not a validation one.)
C6_ValidationNeverRaises ==
  IsPrediction => (response.status \in {200, 400} \/ calls # <<>>)

\* C7: requests are stateless and deterministic: no request changes the stored
\* classifier or airport table, and a request identical to an earlier one gets
\* the identical response, whatever was served in between.
C7_StatelessDeterministic ==
  /\ []((seen # <<>> /\ seen[1].request = request) => seen[1].response = response)
  /\ [][DELAY_MODEL' = DELAY_MODEL /\ AIRPORTS_DF' = AIRPORTS_DF]_vars

\* C7 witness: a prediction answered 200 again after a different request was
\* served in between.
C7_RepeatedAfterOther ==
  /\ seen # <<>>
  /\ seen[1].other
  /\ seen[1].request = request
  /\ IsPrediction
  /\ response.status = 200

\* C8: GET /airports returns every row of the table exactly once, ascending by
\* airport_name, with count the length of the list.
C8_AirportsSortedPermutation ==
  request.endpoint = "airports" =>
    /\ response.status = 200
    /\ Len(response.listing) = 1
    /\ LET listed == response.listing[1].airports
       IN /\ response.listing[1].count = Len(listed)
          /\ Len(listed) = Len(AIRPORTS_DF)
          /\ \A i \in 1..Len(AIRPORTS_DF) :
               Occurrences(listed, AIRPORTS_DF[i]) = Occurrences(AIRPORTS_DF, AIRPORTS_DF[i])
          /\ \A i \in 1..Len(listed) : \A j \in (i + 1)..Len(listed) :
               ~str_lt(listed[j].airport_name, listed[i].airport_name)

\* C8 witness: a table of three airports that is not in name order, listed
\* with count 3.
C8_UnsortedThreeListed ==
  /\ request.endpoint = "airports"
  /\ Len(AIRPORTS_DF) = 3
  /\ str_lt(AIRPORTS_DF[2].airport_name, AIRPORTS_DF[1].airport_name)
  /\ str_lt(AIRPORTS_DF[3].airport_name, AIRPORTS_DF[2].airport_name)
  /\ response.listing[1].count = 3

\* C9: the delayed probability is the entry at the position of label 1 in the
\* classifier's own class list; when label 1 is not exposed (missing from
\* classes_, or no class list at all) it is the second entry of a distribution
\* with more than one entry and the only entry otherwise; locating it never
\* fails for a non-empty distribution.
C9_DelayedEntryLocated ==
  (IsPrediction /\ calls # <<>>) =>
    /\ response.status = 200
    /\ response.prediction[1].delay_probability = DocumentedDelayed(DELAY_MODEL)

\* C10: a request with a failed field returns 400 without any predict_proba
\* call; an accepted request makes exactly one call with exactly one row:
\* Carrier the (defaulted) carrier, OriginAirportID the coerced origin,
\* DestAirportID the validated airport_id, DayOfWeekName the weekday name.
C10_ClassifierOnlyAfterValidation ==
  IsPrediction =>
    /\ FailedFields # {} => (response.status = 400 /\ calls = <<>>)
    /\ response.status = 200 =>
         /\ Len(calls) = 1
         /\ calls[1] = << [Carrier |-> get(request.body.carrier, UNKNOWN),
                           OriginAirportID |-> ExpectedOrigin,
                           DestAirportID |-> Coercion(request.body.airport_id).val,
                           DayOfWeekName |->
                             WeekdayName(Coercion(request.body.day_of_week).val)] >>

====
